---- MODULE Spec2Model ----
(***************************************************************************)
(* Model of data/datasets/synthetic_burst_train_set.py: the three align    *)
(* methods (SyntheticBurstRGBAligned, SyntheticBurstRAWAligned,            *)
(* SyntheticBurstQuadAligned), flatten_raw_image and __getitem__ of the    *)
(* five dataset classes.                                                   *)
(*                                                                         *)
(* Samples are exact rationals <<n, d>> (d > 0, lowest terms).  A tensor   *)
(* is a record [axes, dims, at]: dims is the numpy/torch shape, at maps    *)
(* every 0-based index tuple to its sample, and axes records what each     *)
(* axis means, so that np.transpose is modelled by what it does to the     *)
(* indices.  cv2.findTransformECC and cv2.warpPerspective are external: a  *)
(* call either raises or yields a translation by tx columns, and which of  *)
(* the two happens for a unit is fixed by the inputs (failPattern).        *)
(* ecc_calls and slot_writes are history variables: the bag of             *)
(* findTransformECC calls (unit and starting matrix) and the bag of slot   *)
(* assignments made by the loop body.                                      *)
(***************************************************************************)
EXTENDS Integers, Sequences, FiniteSets, Bags, TLC

VARIABLES mode, burst_size, seed, burst, i, channel_i, pc, failed, aligned,
          castMode, failPattern, tx, warp_matrix, ecc_calls, slot_writes, pending,
          im_raw_4ch, im_out, fpc, plane,
          variant, burst_transformation_params, crop_sz, frame_crop, frame_gt,
          data, gpc

vars == <<mode, burst_size, seed, burst, i, channel_i, pc, failed, aligned,
          castMode, failPattern, tx, warp_matrix, ecc_calls, slot_writes, pending,
          im_raw_4ch, im_out, fpc, plane,
          variant, burst_transformation_params, crop_sz, frame_crop, frame_gt,
          data, gpc>>

alignVars == <<mode, burst_size, seed, burst, i, channel_i, pc, failed, aligned,
               castMode, failPattern, tx, warp_matrix, ecc_calls, slot_writes, pending>>

flattenVars == <<im_raw_4ch, im_out, fpc, plane>>

itemVars == <<variant, burst_transformation_params, crop_sz, frame_crop, frame_gt,
              data, gpc>>

-----------------------------------------------------------------------------
(* Bounds of the model *)

\* largest burst length tried (the loops stop at LoopEnd = 14, so 15 is a
\* burst with a frame the loops never reach)
MaxN == 15

\* rows and columns of one plane of a burst
Height == 1

Width == 2

\* largest translation (in columns) a successful registration yields
MaxShift == 1

\* number of input value patterns tried
NumSeeds == 3

-----------------------------------------------------------------------------
(* Program constants *)

\* variant of LoopStart: the loop also processes the reference frame
LoopStartZero == 1 - 1

\* range(1, 14): first and one-past-last moving frame index
LoopStart == 1

LoopEnd == 14

\* burst_size defaults of the constructors
DefaultBurstSize == 8

QuadBurstSize == 14

RGBChannels == 3

RAWChannels == 4

QuadChannels == 16

RGBScale == 255

\* variant of RAWScale: the largest 14-bit value
RAWScaleMinusOne == 16384 - 1

\* 2**14
RAWScale == 16384

\* number of values of the 'uint8' dtype
Uint8Range == 256

-----------------------------------------------------------------------------
(* Exact rational arithmetic on <<n, d>> *)

Abs(n) == IF n < 0 THEN -n ELSE n

RECURSIVE GCD(_, _)
GCD(a, b) == IF b = 0 THEN a ELSE GCD(b, a % b)

Rat(n, d) ==
    LET g == GCD(Abs(n), d)
    IN  IF n = 0 THEN <<0, 1>> ELSE <<n \div g, d \div g>>

Zero == <<0, 1>>

One == <<1, 1>>

RMul(x, k) == Rat(x[1] * k, x[2])

RDiv(x, k) == Rat(x[1], x[2] * k)

RLess(x, y) == x[1] * y[2] < y[1] * x[2]

RLeq(x, y) == x[1] * y[2] <= y[1] * x[2]

\* C float -> integer conversion: truncation toward zero
Trunc(x) == IF x[1] >= 0 THEN x[1] \div x[2] ELSE -((-x[1]) \div x[2])

InUnit(x) == RLeq(Zero, x) /\ RLeq(x, One)

\* variant of Clamp01: the clamp is left out
NoClamp(x) == x

\* torch.clamp(x, 0.0, 1.0) on one sample
Clamp01(x) == IF RLess(x, Zero) THEN Zero ELSE IF RLess(One, x) THEN One ELSE x

\* astype('uint8') on one float sample: truncation toward zero when the
\* truncated value fits; otherwise the C conversion is undefined and the build
\* either keeps the low 8 bits ("wrap") or saturates ("saturate")
CastUint8(x, cm) ==
    LET q == Trunc(x)
    IN  IF q >= 0 /\ q < Uint8Range THEN <<q, 1>>
        ELSE IF cm = "wrap" THEN <<((q % Uint8Range) + Uint8Range) % Uint8Range, 1>>
        ELSE IF q < 0 THEN Zero ELSE <<Uint8Range - 1, 1>>

\* variant of CastUint16: round to the nearest integer
CastUint16Round(x) == <<Trunc(Rat(2 * x[1] + x[2], 2 * x[2])), 1>>

\* astype(np.uint16) on a sample already inside [0, 2^14]: truncation
CastUint16(x) == <<Trunc(x), 1>>

-----------------------------------------------------------------------------
(* Tensors *)

Idx4(d) == (0..(d[1]-1)) \X (0..(d[2]-1)) \X (0..(d[3]-1)) \X (0..(d[4]-1))

\* position (1-based) in the permutation p of the 0-based axis j
Pos(p, j) == CHOOSE k \in 1..4 : p[k] = j

\* np.transpose(t, p): axis k of the result is axis p[k] of t
Transpose(t, p) ==
    LET nd == <<t.dims[p[1]+1], t.dims[p[2]+1], t.dims[p[3]+1], t.dims[p[4]+1]>>
    IN  [axes |-> <<t.axes[p[1]+1], t.axes[p[2]+1], t.axes[p[3]+1], t.axes[p[4]+1]>>,
         dims |-> nd,
         at   |-> [idx \in Idx4(nd) |->
                     t.at[<<idx[Pos(p, 0)], idx[Pos(p, 1)], idx[Pos(p, 2)], idx[Pos(p, 3)]>>]]]

\* the sample of t at frame f, channel ch, row r, column c, whatever t's layout
At(t, f, ch, r, c) ==
    LET v(name) == CASE name = "frame" -> f [] name = "chan" -> ch
                     [] name = "row" -> r [] name = "col" -> c
    IN  t.at[<<v(t.axes[1]), v(t.axes[2]), v(t.axes[3]), v(t.axes[4])>>]

\* the size of t along the axis called name
Dim(t, name) == t.dims[CHOOSE k \in 1..4 : t.axes[k] = name]

-----------------------------------------------------------------------------
(* Inputs *)

Modes == {"RGB", "RAW", "Quad"}

Channels(m) == CASE m = "RGB" -> RGBChannels [] m = "RAW" -> RAWChannels [] m = "Quad" -> QuadChannels

\* sample values: 0, 1, values no working domain represents, values outside
\* [0,1], a multiple of 1/255 (200/255) and a multiple of 1/2^14, and 2/3,
\* whose product with 2^14 has a fractional part above 1/2; in lowest terms
Vals == << <<0, 1>>, <<1, 1>>, <<1, 2>>, <<3, 2>>, <<40, 51>>, <<-1, 4>>, <<5, 16384>>, <<2, 3>> >>

Sample(sd, f, ch, r, c) == Vals[((sd + 3*f + ch + 2*r + 5*c) % Len(Vals)) + 1]

\* burst lengths tried: 1, the two constructor defaults, and MaxN
BurstSizes == {1, DefaultBurstSize, QuadBurstSize, MaxN}

\* the burst handed to align: [frame, chan, row, col] from rgb2rawburst,
\* [frame, row, col, chan] from rgb2rawburst_quad
MakeBurst(m, len, sd) ==
    IF m = "Quad"
    THEN [axes |-> <<"frame", "row", "col", "chan">>,
          dims |-> <<len, Height, Width, QuadChannels>>,
          at   |-> [idx \in Idx4(<<len, Height, Width, QuadChannels>>) |->
                      Sample(sd, idx[1], idx[4], idx[2], idx[3])]]
    ELSE [axes |-> <<"frame", "chan", "row", "col">>,
          dims |-> <<len, Channels(m), Height, Width>>,
          at   |-> [idx \in Idx4(<<len, Channels(m), Height, Width>>) |->
                      Sample(sd, idx[1], idx[2], idx[3], idx[4])]]

\* the argument of align
burst_in == MakeBurst(mode, burst_size, seed)

CastModes == {"wrap", "saturate"}

FailPatterns == {"none", "all", "chan2", "mixed"}

\* whether cv2.findTransformECC / cv2.warpPerspective raises for the unit
\* (moving frame f, channel ch); ch = 0 in whole-frame mode
EccRaises(fp, f, ch) ==
    CASE fp = "none"  -> FALSE
      [] fp = "all"   -> TRUE
      [] fp = "chan2" -> ch % 4 = 2
      [] fp = "mixed" -> (f + ch) % 3 = 0

NoTensor == [axes |-> <<>>, dims |-> <<>>, at |-> <<>>]

-----------------------------------------------------------------------------
(* align *)

\* tensor to numpy, rescale, cast, transpose (lines 298-300)
RGBToWorking(t, cm) ==
    Transpose([t EXCEPT !.at = [idx \in DOMAIN t.at |-> CastUint8(RMul(t.at[idx], RGBScale), cm)]],
              <<0, 2, 3, 1>>)

\* lines 438-440
RAWToWorking(t) ==
    Transpose([t EXCEPT !.at = [idx \in DOMAIN t.at |-> RMul(t.at[idx], RAWScale)]],
              <<0, 2, 3, 1>>)

\* lines 584-587: clamp, scale, uint16, float32; no transpose
QuadToWorking(t) ==
    [t EXCEPT !.at = [idx \in DOMAIN t.at |-> CastUint16(RMul(Clamp01(t.at[idx]), RAWScale))]]

ToWorking(m, t, cm) ==
    CASE m = "RGB" -> RGBToWorking(t, cm)
      [] m = "RAW" -> RAWToWorking(t)
      [] m = "Quad" -> QuadToWorking(t)

Scale(m) == IF m = "RGB" THEN RGBScale ELSE RAWScale

\* variant of BackPerm: the burst is not transposed back
BackPermIdentity == <<0, 1, 2, 3>>

\* the permutation of the final np.transpose (lines 332, 473, 622)
BackPerm == <<0, 3, 1, 2>>

\* numpy to tensor: transpose, divide, clamp (lines 332-334, 473-475, 622-624)
FromWorking(m, b) ==
    LET t == Transpose(b, BackPerm)
    IN  [t EXCEPT !.at = [idx \in DOMAIN t.at |-> Clamp01(RDiv(t.at[idx], Scale(m)))]]

\* the channels one unit covers: all of them in whole-frame mode
UnitChannels(m, ch) == IF m = "RGB" THEN 0..(RGBChannels - 1) ELSE {ch}

\* the indices of burst[f, :, :, chs]
Slice(b, f, chs) == {f} \X (0..(b.dims[2] - 1)) \X (0..(b.dims[3] - 1)) \X chs

\* burst[f, :, :, chs] = warpPerspective(burst[f, :, :, chs], translation by
\* shift columns, INTER_LINEAR + WARP_INVERSE_MAP): dst(r, c) = src(r, c + shift),
\* 0 outside the source (BORDER_CONSTANT)
Warp(b, f, chs, shift) ==
    [b EXCEPT !.at = [idx \in Slice(b, f, chs) |->
        IF idx[3] + shift < b.dims[3]
        THEN b.at[<<f, idx[2], idx[3] + shift, idx[4]>>]
        ELSE Zero] @@ b.at]

\* variant of Fallback: the except branch leaves the moving data in place
FallbackKeepsMoving(b, f, chs) == b

\* variant of Fallback: the except branch copies the whole reference frame
FallbackWholeFrame(b, f, chs) ==
    [b EXCEPT !.at = [idx \in DOMAIN b.at |->
        IF idx[1] = f THEN b.at[<<0, idx[2], idx[3], idx[4]>>] ELSE b.at[idx]]]

\* variant of Fallback: the except branch copies the previous frame
FallbackPrevious(b, f, chs) ==
    [b EXCEPT !.at = [idx \in Slice(b, f, chs) |->
        b.at[<<f - 1, idx[2], idx[3], idx[4]>>]] @@ b.at]

\* except: burst[f, :, :, chs] = burst[0, :, :, chs]
Fallback(b, f, chs) ==
    [b EXCEPT !.at = [idx \in Slice(b, f, chs) |->
        b.at[<<0, idx[2], idx[3], idx[4]>>]] @@ b.at]

\* np.eye(3, 3)
Eye == << <<1, 0, 0>>, <<0, 1, 0>>, <<0, 0, 1>> >>

\* the homography of a translation by shift columns
Translation(shift) == << <<1, 0, shift>>, <<0, 1, 0>>, <<0, 0, 1>> >>

\* warp_matrix before the first iteration binds it
NoMatrix == <<>>

\* variant of InitialWarp: the previous unit's matrix is the starting point
InitialWarpCarried(prev) == prev

\* warp_matrix = np.eye(3, 3, dtype=np.float32), at the top of every iteration
InitialWarp(prev) == Eye

\* cv2.findTransformECC when it does not raise: the estimated homography
FindTransformECC(start, shift) == Translation(shift)

\* one more occurrence of e in the bag
Logged(bag, e) == bag (+) SetToBag({e})

\* the loop header(s): the unit after (f, ch)
LastChannel(m, ch) == m = "RGB" \/ ch + 1 = Channels(m)

Advance ==
    IF LastChannel(mode, channel_i)
    THEN i' = i + 1 /\ channel_i' = 0
    ELSE i' = i /\ channel_i' = channel_i + 1

\* entry of align up to the loop
AlignBegin ==
    /\ pc = "call"
    /\ burst' = ToWorking(mode, burst, castMode)
    /\ i' = LoopStart
    /\ channel_i' = 0
    /\ pc' = "loop"
    /\ UNCHANGED <<mode, burst_size, seed, failed, aligned, castMode, failPattern, tx>>
    /\ UNCHANGED <<warp_matrix, ecc_calls, slot_writes, pending>>
    /\ UNCHANGED flattenVars
    /\ UNCHANGED itemVars

\* im2 = burst[i] with i past the last frame: IndexError, outside the try
UnitIndexError ==
    /\ pc = "loop"
    /\ i < LoopEnd
    /\ i >= burst.dims[1]
    /\ pc' = "raised"
    /\ UNCHANGED <<mode, burst_size, seed, burst, i, channel_i, failed, aligned, castMode, failPattern, tx>>
    /\ UNCHANGED <<warp_matrix, ecc_calls, slot_writes, pending>>
    /\ UNCHANGED flattenVars
    /\ UNCHANGED itemVars

\* try branch: registration and resampling succeed
UnitAligned ==
    /\ pc = "loop"
    /\ i < LoopEnd
    /\ i < burst.dims[1]
    /\ ~EccRaises(failPattern, i, channel_i)
    /\ LET start == InitialWarp(warp_matrix)
           found == FindTransformECC(start, tx)
       IN  /\ ecc_calls' = Logged(ecc_calls, <<i, channel_i, start>>)
           /\ warp_matrix' = found
           /\ burst' = Warp(burst, i, UnitChannels(mode, channel_i), found[1][3])
    /\ slot_writes' = Logged(slot_writes, <<i, channel_i, "aligned">>)
    /\ aligned' = aligned \cup {<<i, channel_i>>}
    /\ Advance
    /\ UNCHANGED <<mode, burst_size, seed, pc, failed, castMode, failPattern, tx, pending>>
    /\ UNCHANGED flattenVars
    /\ UNCHANGED itemVars

\* except branch
UnitFallback ==
    /\ pc = "loop"
    /\ i < LoopEnd
    /\ i < burst.dims[1]
    /\ EccRaises(failPattern, i, channel_i)
    /\ LET start == InitialWarp(warp_matrix)
       IN  /\ ecc_calls' = Logged(ecc_calls, <<i, channel_i, start>>)
           /\ warp_matrix' = start
    /\ burst' = Fallback(burst, i, UnitChannels(mode, channel_i))
    /\ slot_writes' = Logged(slot_writes, <<i, channel_i, "fallback">>)
    /\ failed' = failed \cup {<<i, channel_i>>}
    /\ Advance
    /\ UNCHANGED <<mode, burst_size, seed, pc, aligned, castMode, failPattern, tx, pending>>
    /\ UNCHANGED flattenVars
    /\ UNCHANGED itemVars

\* after the loop: back to a tensor, return
AlignReturn ==
    /\ pc = "loop"
    /\ i = LoopEnd
    /\ burst' = FromWorking(mode, burst)
    /\ pc' = "done"
    /\ UNCHANGED <<mode, burst_size, seed, i, channel_i, failed, aligned, castMode, failPattern, tx>>
    /\ UNCHANGED <<warp_matrix, ecc_calls, slot_writes, pending>>
    /\ UNCHANGED flattenVars
    /\ UNCHANGED itemVars

-----------------------------------------------------------------------------
(* The units of the loop run in another order: the body of the loop is the *)
(* same, the scheduler may run any pending unit that is fewer than Window  *)
(* places after the first pending unit of the loop order.                  *)

\* how far ahead of the loop order a unit may run
Window == 3

\* the values of channel_i: range(0, 4), range(0, 16); one unit per frame in
\* whole-frame mode
UnitChannelCount(m) == IF m = "RGB" THEN 1 ELSE Channels(m)

\* the (i, channel_i) pairs of the for loops
AllUnits(m) == (LoopStart..(LoopEnd - 1)) \X (0..(UnitChannelCount(m) - 1))

\* the number of iterations of the loop body
NumUnits(m) == (LoopEnd - LoopStart) * UnitChannelCount(m)

\* the place of a unit in the order of the for loops, from 0
Rank(m, u) == (u[1] - LoopStart) * UnitChannelCount(m) + u[2]

UnitAt(m, k) == <<LoopStart + (k \div UnitChannelCount(m)), k % UnitChannelCount(m)>>

\* the elements of the burst one unit reads (im1 / im1_gray, im2 / im2_gray)
\* and the elements it assigns
Reads(b, f, chs) == Slice(b, 0, chs) \cup Slice(b, f, chs)

Writes(b, f, chs) == Slice(b, f, chs)

\* the body of the loop for the unit (f, ch), on the working array
ProcessUnit(m, b, f, ch, fp, shift) ==
    IF EccRaises(fp, f, ch)
    THEN Fallback(b, f, UnitChannels(m, ch))
    ELSE Warp(b, f, UnitChannels(m, ch), FindTransformECC(InitialWarp(NoMatrix), shift)[1][3])

\* the for loops from the k-th unit on, in their order
RECURSIVE SeqLoop(_, _, _, _, _)
SeqLoop(m, b, k, fp, shift) ==
    IF k = NumUnits(m) THEN b
    ELSE LET u == UnitAt(m, k)
         IN  SeqLoop(m, ProcessUnit(m, b, u[1], u[2], fp, shift), k + 1, fp, shift)

\* align as written, for a burst the loops do not run past
SeqAlign(m, t, cm, fp, shift) ==
    FromWorking(m, SeqLoop(m, ToWorking(m, t, cm), 0, fp, shift))

\* the place of the first pending unit at or after place k
RECURSIVE FirstPending(_, _, _)
FirstPending(m, pend, k) ==
    IF UnitAt(m, k) \in pend \/ k >= NumUnits(m) THEN k
    ELSE FirstPending(m, pend, k + 1)

\* the pending units the scheduler may run now; fewer than Window units after
\* the first pending one have run, so the search for it starts that far
\* before the number of units that have run
Runnable(m, pend) ==
    LET ran == NumUnits(m) - Cardinality(pend)
        lo  == FirstPending(m, pend, IF ran < Window THEN 0 ELSE ran - Window + 1)
    IN  {UnitAt(m, k) : k \in lo..(lo + Window - 1)} \cap pend

AnyBegin ==
    /\ pc = "call"
    /\ burst' = ToWorking(mode, burst, castMode)
    /\ pending' = AllUnits(mode)
    /\ pc' = "par"
    /\ UNCHANGED <<mode, burst_size, seed, i, channel_i, failed, aligned, castMode, failPattern, tx>>
    /\ UNCHANGED <<warp_matrix, ecc_calls, slot_writes>>
    /\ UNCHANGED flattenVars
    /\ UNCHANGED itemVars

AnyUnitIndexError ==
    /\ pc = "par"
    /\ \E u \in Runnable(mode, pending) :
          /\ u[1] >= burst.dims[1]
    /\ pc' = "raised"
    /\ UNCHANGED <<mode, burst_size, seed, burst, i, channel_i, failed, aligned, castMode, failPattern, tx>>
    /\ UNCHANGED <<warp_matrix, ecc_calls, slot_writes, pending>>
    /\ UNCHANGED flattenVars
    /\ UNCHANGED itemVars

AnyUnitAligned ==
    /\ pc = "par"
    /\ \E u \in Runnable(mode, pending) :
          /\ u[1] < burst.dims[1]
          /\ ~EccRaises(failPattern, u[1], u[2])
          /\ LET start == InitialWarp(warp_matrix)
                 found == FindTransformECC(start, tx)
             IN  /\ ecc_calls' = Logged(ecc_calls, <<u[1], u[2], start>>)
                 /\ burst' = Warp(burst, u[1], UnitChannels(mode, u[2]), found[1][3])
          /\ slot_writes' = Logged(slot_writes, <<u[1], u[2], "aligned">>)
          /\ aligned' = aligned \cup {u}
          /\ pending' = pending \ {u}
    /\ UNCHANGED <<mode, burst_size, seed, i, channel_i, pc, failed, castMode, failPattern, tx>>
    /\ UNCHANGED warp_matrix
    /\ UNCHANGED flattenVars
    /\ UNCHANGED itemVars

AnyUnitFallback ==
    /\ pc = "par"
    /\ \E u \in Runnable(mode, pending) :
          /\ u[1] < burst.dims[1]
          /\ EccRaises(failPattern, u[1], u[2])
          /\ ecc_calls' = Logged(ecc_calls, <<u[1], u[2], InitialWarp(warp_matrix)>>)
          /\ burst' = Fallback(burst, u[1], UnitChannels(mode, u[2]))
          /\ slot_writes' = Logged(slot_writes, <<u[1], u[2], "fallback">>)
          /\ failed' = failed \cup {u}
          /\ pending' = pending \ {u}
    /\ UNCHANGED <<mode, burst_size, seed, i, channel_i, pc, aligned, castMode, failPattern, tx>>
    /\ UNCHANGED warp_matrix
    /\ UNCHANGED flattenVars
    /\ UNCHANGED itemVars

AnyReturn ==
    /\ pc = "par"
    /\ pending = {}
    /\ burst' = FromWorking(mode, burst)
    /\ pc' = "done"
    /\ UNCHANGED <<mode, burst_size, seed, i, channel_i, failed, aligned, castMode, failPattern, tx>>
    /\ UNCHANGED <<warp_matrix, ecc_calls, slot_writes, pending>>
    /\ UNCHANGED flattenVars
    /\ UNCHANGED itemVars

-----------------------------------------------------------------------------
(* flatten_raw_image *)

\* largest plane height and width handed to flatten_raw_image
FlatMaxH == 2

FlatMaxW == 2

\* number of input value patterns tried for flatten_raw_image
FlatSeeds == 2

\* leading plane counts tried: fewer than 4, 4, more than 4, the quad layout
PlaneCounts == {1, 3, 4, 5, 8, QuadChannels}

\* a numpy array, a torch tensor, anything else
Kinds == {"ndarray", "tensor", "list"}

\* every sample of the input is different and none is 0
FlatSample(sd, k, r, c) == <<1 + sd + c + FlatMaxW * (r + FlatMaxH * k), 1>>

MakePacked(kind, k, h, w, sd) ==
    [kind |-> kind,
     dims |-> <<k, h, w>>,
     at   |-> [idx \in (0..(k-1)) \X (0..(h-1)) \X (0..(w-1)) |->
                 FlatSample(sd, idx[1], idx[2], idx[3])]]

NoPacked == [kind |-> "none", dims |-> <<>>, at |-> <<>>]

NoPlane == [dims |-> <<>>, at |-> <<>>]

\* variant of IsArray: no check of the input's kind
IsArrayAlways(P) == TRUE

\* isinstance(im_raw_4ch, np.ndarray) or isinstance(im_raw_4ch, torch.Tensor)
IsArray(P) == P.kind \in {"ndarray", "tensor"}

\* np.zeros_like(..., shape=(shape[1] * 2, shape[2] * 2)) / torch.zeros(...)
Zeros(P) ==
    [dims |-> <<P.dims[2] * 2, P.dims[3] * 2>>,
     at   |-> [idx \in (0..(P.dims[2] * 2 - 1)) \X (0..(P.dims[3] * 2 - 1)) |-> Zero]]

\* the four assignments of lines 19-22 write planes 0..3
PlanesWritten == 4

\* variant of HasPlane: the plane count is validated to be exactly 4
HasPlaneStrict(P, k) == P.dims[1] = PlanesWritten

\* im_raw_4ch[k, :, :] exists
HasPlane(P, k) == k < P.dims[1]

\* the slice starts of the k-th assignment: im_out[RowStart::2, ColStart::2]
\* variant of RowStart: every plane is written from row 0
RowStartZero(k) == 0

RowStart(k) == k \div 2

\* variant of ColStart: the column start repeats the row start
ColStartSame(k) == k \div 2

ColStart(k) == k % 2

\* im_out[RowStart(k)::2, ColStart(k)::2] = im_raw_4ch[k, :, :]
WritePlane(out, P, k) ==
    [out EXCEPT !.at = [idx \in DOMAIN out.at |->
        IF idx[1] % 2 = RowStart(k) /\ idx[2] % 2 = ColStart(k)
        THEN P.at[<<k, idx[1] \div 2, idx[2] \div 2>>]
        ELSE out.at[idx]]]

\* lines 12-15: the isinstance dispatch allocates im_out
FlattenAlloc ==
    /\ fpc = "call"
    /\ IsArray(im_raw_4ch)
    /\ im_out' = Zeros(im_raw_4ch)
    /\ plane' = 0
    /\ fpc' = "write"
    /\ UNCHANGED im_raw_4ch
    /\ UNCHANGED alignVars
    /\ UNCHANGED itemVars

\* lines 16-17: raise Exception
FlattenUnsupported ==
    /\ fpc = "call"
    /\ ~IsArray(im_raw_4ch)
    /\ fpc' = "raised"
    /\ UNCHANGED <<im_raw_4ch, im_out, plane>>
    /\ UNCHANGED alignVars
    /\ UNCHANGED itemVars

\* one of lines 19-22
FlattenWrite ==
    /\ fpc = "write"
    /\ plane < PlanesWritten
    /\ HasPlane(im_raw_4ch, plane)
    /\ im_out' = WritePlane(im_out, im_raw_4ch, plane)
    /\ plane' = plane + 1
    /\ UNCHANGED <<im_raw_4ch, fpc>>
    /\ UNCHANGED alignVars
    /\ UNCHANGED itemVars

\* one of lines 19-22 indexing a plane the input does not have: IndexError
FlattenIndexError ==
    /\ fpc = "write"
    /\ plane < PlanesWritten
    /\ ~HasPlane(im_raw_4ch, plane)
    /\ fpc' = "raised"
    /\ UNCHANGED <<im_raw_4ch, im_out, plane>>
    /\ UNCHANGED alignVars
    /\ UNCHANGED itemVars

\* line 24
FlattenReturn ==
    /\ fpc = "write"
    /\ plane = PlanesWritten
    /\ fpc' = "returned"
    /\ UNCHANGED <<im_raw_4ch, im_out, plane>>
    /\ UNCHANGED alignVars
    /\ UNCHANGED itemVars

FlattenIdle ==
    /\ im_raw_4ch = NoPacked
    /\ im_out = NoPlane
    /\ fpc = "idle"
    /\ plane = 0

AlignIdle ==
    /\ mode = "RGB"
    /\ burst_size = 0
    /\ seed = 0
    /\ burst = NoTensor
    /\ i = 0
    /\ channel_i = 0
    /\ pc = "idle"
    /\ failed = {}
    /\ aligned = {}
    /\ castMode = "wrap"
    /\ failPattern = "none"
    /\ tx = 0
    /\ warp_matrix = NoMatrix
    /\ ecc_calls = EmptyBag
    /\ slot_writes = EmptyBag
    /\ pending = {}

\* a 2-D image nobody has produced yet, and the sample not yet assembled
NoImage == [dims |-> <<0, 0>>, at |-> <<>>]

NoData == [HR |-> NoImage]

\* a dict without the key 'border_crop'
NoBorderCrop == <<>>

ItemIdle ==
    /\ variant = "SyntheticBurst"
    /\ burst_transformation_params = NoBorderCrop
    /\ crop_sz = 0
    /\ frame_crop = NoImage
    /\ frame_gt = NoImage
    /\ data = NoData
    /\ gpc = "idle"

InitFlatten ==
    /\ \E kind \in Kinds, k \in PlaneCounts, h \in 1..FlatMaxH, w \in 1..FlatMaxW,
          sd \in 0..(FlatSeeds - 1) : im_raw_4ch = MakePacked(kind, k, h, w, sd)
    /\ im_out = NoPlane
    /\ fpc = "call"
    /\ plane = 0
    /\ AlignIdle
    /\ ItemIdle

NextFlatten ==
    \/ FlattenAlloc
    \/ FlattenUnsupported
    \/ FlattenWrite
    \/ FlattenIndexError
    \/ FlattenReturn

SpecFlatten == InitFlatten /\ [][NextFlatten]_vars

-----------------------------------------------------------------------------
(* Specification of align *)

Init ==
    /\ mode \in Modes
    /\ burst_size \in BurstSizes
    /\ seed \in 0..(NumSeeds - 1)
    /\ burst = burst_in
    /\ i = 0
    /\ channel_i = 0
    /\ pc = "call"
    /\ failed = {}
    /\ aligned = {}
    /\ castMode \in (IF mode = "RGB" THEN CastModes ELSE {"wrap"})
    /\ failPattern \in FailPatterns
    /\ tx \in 0..MaxShift
    /\ warp_matrix = NoMatrix
    /\ ecc_calls = EmptyBag
    /\ slot_writes = EmptyBag
    /\ pending = {}
    /\ FlattenIdle
    /\ ItemIdle

Next ==
    \/ AlignBegin
    \/ UnitIndexError
    \/ UnitAligned
    \/ UnitFallback
    \/ AlignReturn

Spec == Init /\ [][Next]_vars

\* one pattern of input values for the runs in another order
InitAnyOrder == Init /\ seed = 0

NextAnyOrder ==
    \/ AnyBegin
    \/ AnyUnitIndexError
    \/ AnyUnitAligned
    \/ AnyUnitFallback
    \/ AnyReturn

SpecAnyOrder == InitAnyOrder /\ [][NextAnyOrder]_vars

-----------------------------------------------------------------------------
(* __getitem__ of the five dataset classes.  An image is [dims, at] over   *)
(* its two spatial axes (the leading channel axis is kept whole by every   *)
(* slice); a pixel is <<tag, row, column>>: the image it was computed from *)
(* ("crop": the random crop of the loaded frame, "gt": the ground truth    *)
(* the burst synthesizer makes of that crop) and its place in the loaded   *)
(* frame.                                                                  *)

\* largest self.crop_sz, border_crop and random-crop offset tried
MaxCrop == 2

MaxBorder == 2

MaxOffset == 1

Variants == {"SyntheticBurst", "SyntheticBurstRGB", "SyntheticBurstRGBAligned",
             "SyntheticBurstRAWAligned", "SyntheticBurstQuadAligned"}

\* the classes whose __getitem__ calls self.align
AlignedVariants == {"SyntheticBurstRGBAligned", "SyntheticBurstRAWAligned",
                    "SyntheticBurstQuadAligned"}

\* burst_transformation_params as far as __getitem__ reads it
ParamChoices == {NoBorderCrop} \cup {[border_crop |-> b] : b \in 0..MaxBorder}

\* dict.get(key, default); dict.get(key) is None exactly when the key is absent
Get(d, key, default) == IF key \in DOMAIN d THEN d[key] ELSE default

HasKey(d, key) == key \in DOMAIN d

\* random_crop(frame, crop_sz) with its top-left corner at (top, left)
RandomCrop(sz, top, left) ==
    [dims |-> <<sz, sz>>,
     at   |-> [p \in (0..(sz - 1)) \X (0..(sz - 1)) |-> <<"crop", p[1] + top, p[2] + left>>]]

\* the frame_gt output of rgb2rawburst / rgb2rawburst_quad: the unprocessed
\* crop, pixel for pixel, at the size of the crop
GroundTruth(crop) ==
    [dims |-> crop.dims,
     at   |-> [p \in DOMAIN crop.at |-> <<"gt", crop.at[p][2], crop.at[p][3]>>]]

\* a slice bound k on an axis of length len: negative bounds count from the end
SliceBound(k, len) ==
    IF k < 0 THEN (IF k + len < 0 THEN 0 ELSE k + len)
    ELSE (IF k > len THEN len ELSE k)

\* the indices start:stop selects on an axis of length len
PySlice(start, stop, len) == SliceBound(start, len)..(SliceBound(stop, len) - 1)

\* x[:, b:-b, b:-b]
BorderSlice(x, b) ==
    LET rows == PySlice(b, 0 - b, x.dims[1])
        cols == PySlice(b, 0 - b, x.dims[2])
        r0   == SliceBound(b, x.dims[1])
        c0   == SliceBound(b, x.dims[2])
    IN  [dims |-> <<Cardinality(rows), Cardinality(cols)>>,
         at   |-> [p \in (0..(Cardinality(rows) - 1)) \X (0..(Cardinality(cols) - 1)) |->
                     x.at[<<p[1] + r0, p[2] + c0>>]]]

\* variant of HRImage: every class returns frame_gt
HRImageGroundTruth(v, crop, gt, params) == gt

\* the HR entry of the returned sample: frame_gt, but in the quad class
\* (lines 571-573) frame_crop[:, border:-border, border:-border]
HRImage(v, crop, gt, params) ==
    IF v = "SyntheticBurstQuadAligned"
    THEN BorderSlice(crop, Get(params, "border_crop", 0))
    ELSE gt

\* crop_sz = self.crop_sz + 2 * border_crop; frame_crop = random_crop(frame, crop_sz)
GetItemCrop ==
    /\ gpc = "start"
    /\ \E top \in 0..MaxOffset, left \in 0..MaxOffset :
          frame_crop' = RandomCrop(crop_sz + 2 * Get(burst_transformation_params, "border_crop", 0),
                                   top, left)
    /\ gpc' = "cropped"
    /\ UNCHANGED <<variant, burst_transformation_params, crop_sz, frame_gt, data>>
    /\ UNCHANGED <<alignVars, flattenVars>>

\* burst, frame_gt, ... = rgb2rawburst(frame_crop, ...)
GetItemSynthesize ==
    /\ gpc = "cropped"
    /\ frame_gt' = GroundTruth(frame_crop)
    /\ gpc' = "synth"
    /\ UNCHANGED <<variant, burst_transformation_params, crop_sz, frame_crop, data>>
    /\ UNCHANGED <<alignVars, flattenVars>>

\* burst = self.align(burst) returns: the burst has at least LoopEnd frames
GetItemAlign ==
    /\ gpc = "synth"
    /\ variant \in AlignedVariants
    /\ burst_size >= LoopEnd
    /\ gpc' = "aligned"
    /\ UNCHANGED <<variant, burst_transformation_params, crop_sz, frame_crop, frame_gt, data>>
    /\ UNCHANGED <<alignVars, flattenVars>>

\* burst = self.align(burst) raises IndexError: fewer than LoopEnd frames
GetItemAlignRaises ==
    /\ gpc = "synth"
    /\ variant \in AlignedVariants
    /\ burst_size < LoopEnd
    /\ gpc' = "raised"
    /\ UNCHANGED <<variant, burst_transformation_params, crop_sz, frame_crop, frame_gt, data>>
    /\ UNCHANGED <<alignVars, flattenVars>>

\* __getitem__ has reached the border crop of frame_gt
AtBorderCrop == gpc = "aligned" \/ (gpc = "synth" /\ variant \notin AlignedVariants)

\* if ...get('border_crop') is not None: frame_gt = frame_gt[:, b:-b, b:-b]
GetItemBorderCrop ==
    /\ AtBorderCrop
    /\ HasKey(burst_transformation_params, "border_crop")
    /\ frame_gt' = BorderSlice(frame_gt, burst_transformation_params["border_crop"])
    /\ gpc' = "gt"
    /\ UNCHANGED <<variant, burst_transformation_params, crop_sz, frame_crop, data>>
    /\ UNCHANGED <<alignVars, flattenVars>>

\* the if is not taken: no 'border_crop' key
GetItemNoBorderCrop ==
    /\ AtBorderCrop
    /\ ~HasKey(burst_transformation_params, "border_crop")
    /\ gpc' = "gt"
    /\ UNCHANGED <<variant, burst_transformation_params, crop_sz, frame_crop, frame_gt, data>>
    /\ UNCHANGED <<alignVars, flattenVars>>

\* data['HR'] = ...; return
GetItemReturn ==
    /\ gpc = "gt"
    /\ data' = [HR |-> HRImage(variant, frame_crop, frame_gt, burst_transformation_params)]
    /\ gpc' = "returned"
    /\ UNCHANGED <<variant, burst_transformation_params, crop_sz, frame_crop, frame_gt>>
    /\ UNCHANGED <<alignVars, flattenVars>>

InitGetItem ==
    /\ variant \in Variants
    /\ burst_transformation_params \in ParamChoices
    /\ crop_sz \in 1..MaxCrop
    /\ frame_crop = NoImage
    /\ frame_gt = NoImage
    /\ data = NoData
    /\ gpc = "start"
    /\ burst_size \in {DefaultBurstSize, QuadBurstSize}
    /\ mode = "RGB"
    /\ seed = 0
    /\ burst = NoTensor
    /\ i = 0
    /\ channel_i = 0
    /\ pc = "idle"
    /\ failed = {}
    /\ aligned = {}
    /\ castMode = "wrap"
    /\ failPattern = "none"
    /\ tx = 0
    /\ warp_matrix = NoMatrix
    /\ ecc_calls = EmptyBag
    /\ slot_writes = EmptyBag
    /\ pending = {}
    /\ FlattenIdle

NextGetItem ==
    \/ GetItemCrop
    \/ GetItemSynthesize
    \/ GetItemAlign
    \/ GetItemAlignRaises
    \/ GetItemBorderCrop
    \/ GetItemNoBorderCrop
    \/ GetItemReturn

SpecGetItem == InitGetItem /\ [][NextGetItem]_vars

-----------------------------------------------------------------------------
(* Properties of align *)

\* the length of the burst handed to align
N == burst_size

ChanSet == 0..(Channels(mode) - 1)

RowSet == 0..(Height - 1)

ColSet == 0..(Width - 1)

PerChannel == mode \in {"RAW", "Quad"}

\* x * Scale(m) is an integer of the working domain
Representable(m, x) == InUnit(x) /\ (m = "RAW" \/ RMul(x, Scale(m))[2] = 1)

\* the largest multiple of 1/Scale(m) that is at most x (x itself in RAW mode)
Quantized(m, x) ==
    IF m = "RAW" THEN x ELSE Rat(Trunc(RMul(x, Scale(m))), Scale(m))

\* C1 as stated: frame 0 of the returned burst equals frame 0 of the input
\* burst exactly, sample for sample, in every mode.
RefInvarianceExact ==
    pc = "done" =>
        \A ch \in ChanSet, r \in RowSet, c \in ColSet :
            At(burst, 0, ch, r, c) = At(burst_in, 0, ch, r, c)

\* C1 amended: whenever align returns, each sample y of frame 0 of the returned
\* burst is the rescale round trip of the input sample x at the same place: for
\* x in [0,1], y = trunc(x * S) / S in the RGB (S = 255) and quad (S = 2^14)
\* modes and y = x in RAW mode; for x outside [0,1], y = clamp(x) in the RAW and
\* quad modes and y is in [0,1] in RGB mode.  So y = x exactly when x is in
\* [0,1] and x * S is an integer (any x in [0,1] in RAW mode).
RefInvarianceRoundTrip ==
    pc = "done" =>
        \A ch \in ChanSet, r \in RowSet, c \in ColSet :
            LET x == At(burst_in, 0, ch, r, c)
                y == At(burst, 0, ch, r, c)
            IN  /\ InUnit(x) => y = Quantized(mode, x)
                /\ Representable(mode, x) => y = x
                /\ ~InUnit(x) /\ mode # "RGB" => y = Clamp01(x)
                /\ InUnit(y)

\* align has returned a burst whose frame 0 holds a sample the working domain
\* represents and one it does not
RefInvarianceWitness ==
    /\ pc = "done"
    /\ \E ch \in ChanSet, r \in RowSet, c \in ColSet :
          Representable(mode, At(burst_in, 0, ch, r, c))
    /\ \E ch \in ChanSet, r \in RowSet, c \in ColSet :
          /\ InUnit(At(burst_in, 0, ch, r, c))
          /\ ~Representable(mode, At(burst_in, 0, ch, r, c))
          /\ At(burst, 0, ch, r, c) # At(burst_in, 0, ch, r, c)

\* C2 as stated: for every burst of N >= 1 frames align returns normally with
\* a full burst of N frames and never propagates an error to the caller.
NoBurstLevelError ==
    /\ pc # "raised"
    /\ pc = "done" => Dim(burst, "frame") = N

\* C3: whenever the registration or resampling of a unit failed, the returned
\* burst's data for that unit equals the returned reference frame's data for
\* the same channel(s) exactly.
FallbackCorrect ==
    pc = "done" =>
        \A u \in failed :
            \A ch \in UnitChannels(mode, u[2]), r \in RowSet, c \in ColSet :
                At(burst, u[1], ch, r, c) = At(burst, 0, ch, r, c)

\* align has returned after a unit failed whose input differed from the
\* reference
FallbackWitness ==
    /\ pc = "done"
    /\ \E u \in failed :
          \E ch \in UnitChannels(mode, u[2]), r \in RowSet, c \in ColSet :
              Quantized(mode, Clamp01(At(burst_in, u[1], ch, r, c)))
                  # Quantized(mode, Clamp01(At(burst_in, 0, ch, r, c)))

\* the rescale back of one working-domain sample
Back(x) == Clamp01(RDiv(x, Scale(mode)))

\* what the unit (f, ch) alone decides for the returned sample at (r, c): the
\* reference's sample if the unit failed, the resampled moving sample if it
\* succeeded, the input's own sample if the loop never reached frame f
UnitOutcome(W, f, ch, r, c) ==
    IF <<f, ch>> \in failed THEN Back(At(W, 0, ch, r, c))
    ELSE IF <<f, ch>> \in aligned
         THEN IF c + tx < Width THEN Back(At(W, f, ch, r, c + tx)) ELSE Zero
         ELSE Back(At(W, f, ch, r, c))

\* C4: in per-channel mode a registration failure on channel c of moving frame
\* i replaces only channel c of frame i with the reference's channel c; every
\* other channel of frame i keeps its own outcome and no other frame changes.
PerChannelPartial ==
    (pc = "done" /\ PerChannel) =>
        LET W == ToWorking(mode, burst_in, castMode)
        IN  \A f \in 0..(N - 1), ch \in ChanSet, r \in RowSet, c \in ColSet :
                At(burst, f, ch, r, c) = UnitOutcome(W, f, ch, r, c)

\* a per-channel align has returned a frame with a failed channel after a
\* resampled one, the two channels differing from the reference
PerChannelWitness ==
    /\ pc = "done"
    /\ PerChannel
    /\ \E f \in 1..(N - 1), c1 \in ChanSet, c2 \in ChanSet :
          /\ c1 < c2
          /\ <<f, c1>> \in aligned
          /\ <<f, c2>> \in failed
          /\ \E r \in RowSet, c \in ColSet :
                At(burst, f, c1, r, c) # At(burst, 0, c1, r, c)

AxisNames == {"frame", "chan", "row", "col"}

\* C5 as stated: align(B) has the same axis order and the same dimensions as B
\* in every mode.
ShapeInvariant ==
    pc = "done" => burst.dims = burst_in.dims /\ burst.axes = burst_in.axes

\* C5 amended: whenever align returns, the returned burst has the frame count,
\* channel count, height and width of B; the RGB and RAW align return B's axis
\* order [frame, chan, row, col], and the quad-Bayer align, given
\* [frame, row, col, chan], returns [frame, chan, row, col].
ShapeUpToLayout ==
    pc = "done" =>
        /\ \A a \in AxisNames : Dim(burst, a) = Dim(burst_in, a)
        /\ burst.axes = <<"frame", "chan", "row", "col">>
        /\ DOMAIN burst.at = Idx4(burst.dims)

\* the quad-Bayer align has returned a burst whose layout is not its input's
ShapeWitness ==
    /\ pc = "done"
    /\ mode = "Quad"
    /\ burst.dims # burst_in.dims

\* C6: every sample of the burst align returns lies in [0,1], also for inputs
\* with samples below 0 or above 1 and for every outcome of each unit.
DomainClamp ==
    pc = "done" => \A idx \in DOMAIN burst.at : InUnit(burst.at[idx])

\* a RAW align has returned for an input with a sample above 1 and one below 0
DomainClampWitness ==
    /\ pc = "done"
    /\ mode = "RAW"
    /\ failed # {}
    /\ aligned # {}
    /\ \E idx \in DOMAIN burst_in.at : RLess(One, burst_in.at[idx])
    /\ \E idx \in DOMAIN burst_in.at : RLess(burst_in.at[idx], Zero)

-----------------------------------------------------------------------------
(* Properties of flatten_raw_image *)

\* the shape (K, H, W) of the input
K == im_raw_4ch.dims[1]

H == im_raw_4ch.dims[2]

W == im_raw_4ch.dims[3]

ArrayKind == im_raw_4ch.kind \in {"ndarray", "tensor"}

\* F[2r+dy, 2c+dx] == P[2*dy+dx, r, c] for all r < H, c < W, dy, dx in {0,1}
Interleaved ==
    \A r \in 0..(H - 1), c \in 0..(W - 1), dy \in 0..1, dx \in 0..1 :
        im_out.at[<<2*r + dy, 2*c + dx>>] = im_raw_4ch.at[<<2*dy + dx, r, c>>]

\* the (2H, 2W) plane im_out packed again by the same offsets
Repack ==
    [idx \in (0..3) \X (0..(H - 1)) \X (0..(W - 1)) |->
        im_out.at[<<2*idx[2] + (idx[1] \div 2), 2*idx[3] + (idx[1] % 2)>>]]

\* the output positions holding the input sample at idx
Places(idx) == {o \in DOMAIN im_out.at : im_out.at[o] = im_raw_4ch.at[idx]}

\* C7: for a packed tensor P of shape (4,H,W), flatten_raw_image(P) is a
\* (2H,2W) plane F with F[2r+dy, 2c+dx] == P[2*dy+dx, r, c]; every input sample
\* is at exactly one output position, every output position is written, and
\* re-packing F by the same offsets returns P exactly.
FlattenLossless ==
    (fpc = "returned" /\ K = 4) =>
        /\ im_out.dims = <<2*H, 2*W>>
        /\ DOMAIN im_out.at = (0..(2*H - 1)) \X (0..(2*W - 1))
        /\ Interleaved
        /\ \A idx \in DOMAIN im_raw_4ch.at : Cardinality(Places(idx)) = 1
        /\ \A o \in DOMAIN im_out.at : im_out.at[o] # Zero
        /\ Repack = im_raw_4ch.at

\* flatten_raw_image has returned for a 4-plane input of the largest size
FlattenLosslessWitness ==
    /\ fpc = "returned"
    /\ K = 4
    /\ H = FlatMaxH
    /\ W = FlatMaxW

\* C8 as stated: for a packed tensor of shape (16,H,W) the result is a single
\* plane larger than (2H,2W) that contains every one of the 16*H*W input
\* samples.
Flatten16Lossless ==
    (fpc = "returned" /\ K = QuadChannels) =>
        /\ im_out.dims[1] * im_out.dims[2] > (2*H) * (2*W)
        /\ \A idx \in DOMAIN im_raw_4ch.at : Places(idx) # {}

\* C8 amended: for a packed tensor of shape (16,H,W) flatten_raw_image returns
\* a (2H,2W) plane F that holds planes 0..3 only, F[2r+dy, 2c+dx] ==
\* P[2*dy+dx, r, c]; the samples of planes 4..15 are dropped.
Flatten16FirstFour ==
    (fpc = "returned" /\ K = QuadChannels) =>
        /\ im_out.dims = <<2*H, 2*W>>
        /\ Interleaved
        /\ \A idx \in DOMAIN im_raw_4ch.at :
              Cardinality(Places(idx)) = (IF idx[1] < 4 THEN 1 ELSE 0)

\* flatten_raw_image has returned for a 16-plane input
Flatten16Witness ==
    /\ fpc = "returned"
    /\ K = QuadChannels
    /\ ArrayKind
    /\ H * W > 1

\* C9 as stated: for every array input whose plane count K is not in {4,16}
\* flatten_raw_image fails with an error instead of returning a plane, and it
\* fails for no input with K = 4.
ShapeMismatchRaised ==
    ArrayKind =>
        /\ fpc = "returned" => K \in {4, QuadChannels}
        /\ fpc = "raised" => K # 4

\* C9 amended: for an array input flatten_raw_image fails with an error (an
\* IndexError on the first missing plane, after planes 0..K-1 were written)
\* exactly when K < 4; for every K >= 4, K = 5, 8 and 16 included, it returns
\* the (2H,2W) plane of planes 0..3.
ShapeMismatchBelowFour ==
    ArrayKind =>
        /\ fpc = "returned" => K >= 4 /\ im_out.dims = <<2*H, 2*W>> /\ Interleaved
        /\ fpc = "raised" => K < 4 /\ plane = K
        /\ fpc \in {"call", "write"} => ENABLED NextFlatten

\* flatten_raw_image has raised on the missing plane of a 3-plane input
ShapeMismatchWitness ==
    /\ fpc = "raised"
    /\ ArrayKind
    /\ K = 3
    /\ plane = 3

\* C10: when the input is neither a numpy array nor a torch tensor the call
\* raises before any output plane is allocated or written, and nothing is
\* returned.
UnsupportedKindRaises ==
    ~ArrayKind /\ fpc # "idle" =>
        /\ fpc \in {"call", "raised"}
        /\ im_out = NoPlane
        /\ plane = 0
        /\ fpc = "call" => ENABLED FlattenUnsupported

\* flatten_raw_image has raised for a list
UnsupportedKindWitness ==
    /\ fpc = "raised"
    /\ im_raw_4ch.kind = "list"
    /\ im_out = NoPlane

-----------------------------------------------------------------------------
(* Properties of the loop bounds and of the rescaling *)

\* the units the loop has run the registration step for
Registered == failed \cup aligned

\* C14 as stated: for a burst of N frames align runs the registration step for
\* every moving-frame index 1..N-1 (per channel in per-channel mode) and for no
\* index outside 1..N-1; when align returns no moving frame is left
\* unprocessed, for every N including N > 14.
FullCoverage ==
    /\ \A u \in Registered : u[1] \in 1..(N - 1)
    /\ pc = "done" =>
          \A f \in 1..(N - 1) :
              \A ch \in (IF PerChannel THEN ChanSet ELSE {0}) : <<f, ch>> \in Registered

\* align has rescaled its argument and not yet processed a unit
Entered == pc = "loop" /\ Registered = {}

FrameSet == 0..(N - 1)

\* x - y
RSub(x, y) == Rat(x[1] * y[2] - y[1] * x[2], x[2] * y[2])

QuadRoundsToNearest ==
    (Entered /\ mode = "Quad") =>
        \A f \in FrameSet, ch \in ChanSet, r \in RowSet, c \in ColSet :
            LET x == At(burst_in, f, ch, r, c)
                d == RSub(RMul(x, 16384), At(burst, f, ch, r, c))
            IN  InUnit(x) => RLeq(<<-1, 2>>, d) /\ RLeq(d, <<1, 2>>)

\* C17 amended: in the quad-Bayer align each input sample x in [0,1] is
\* converted to the integer part of x*2^14 (truncation, not rounding): the
\* working value w is an integer with w <= x*2^14 < w + 1, so it can be up to
\* (but less than) 1 below x*2^14.
QuadTruncates ==
    (Entered /\ mode = "Quad") =>
        \A f \in FrameSet, ch \in ChanSet, r \in RowSet, c \in ColSet :
            LET x == At(burst_in, f, ch, r, c)
                w == At(burst, f, ch, r, c)
            IN  InUnit(x) =>
                    /\ w[2] = 1
                    /\ RLeq(w, RMul(x, 16384))
                    /\ RLess(RMul(x, 16384), <<w[1] + 1, 1>>)

\* the quad-Bayer align has converted a sample whose product with 2^14 has a
\* fractional part above 1/2
QuadTruncatesWitness ==
    /\ Entered
    /\ mode = "Quad"
    /\ \E f \in FrameSet, ch \in ChanSet, r \in RowSet, c \in ColSet :
          LET x == At(burst_in, f, ch, r, c)
          IN  InUnit(x) /\ RLess(<<1, 2>>, RSub(RMul(x, 16384), At(burst, f, ch, r, c)))

\* C18 as stated: in every mode the map from an input sample to its value
\* after rescaling into the working domain and back (no warp, as for frame 0)
\* is monotone non-decreasing over all input values, and inputs outside [0,1]
\* are clamped to the nearest end of the valid range, the 8-bit whole-frame
\* mode included.
MonotoneClampRoundTrip ==
    pc = "done" =>
        \A c1 \in ChanSet, r1 \in RowSet, k1 \in ColSet :
            LET x1 == At(burst_in, 0, c1, r1, k1)
                y1 == At(burst, 0, c1, r1, k1)
            IN  /\ ~InUnit(x1) => y1 = Clamp01(x1)
                /\ \A c2 \in ChanSet, r2 \in RowSet, k2 \in ColSet :
                      RLeq(x1, At(burst_in, 0, c2, r2, k2))
                          => RLeq(y1, At(burst, 0, c2, r2, k2))

-----------------------------------------------------------------------------
(* Properties of the registration attempts *)

\* the units that occur in a bag of <<frame, channel, ...>> entries
UnitsOf(bag) == {<<e[1], e[2]>> : e \in BagToSet(bag)}

\* every entry occurs once and no unit has two different entries
OncePerUnit(bag) ==
    /\ \A e \in BagToSet(bag) : CopiesIn(e, bag) = 1
    /\ Cardinality(UnitsOf(bag)) = Cardinality(BagToSet(bag))

\* C15: during one align call registration is attempted at most once per
\* unit, every attempt starts from the identity transform whatever the earlier
\* units produced, and a unit that has been processed has been attempted
\* exactly once and its slot written exactly once: with the fallback when the
\* attempt failed, with the warped data when it succeeded.
NoRetries ==
    /\ OncePerUnit(ecc_calls)
    /\ UnitsOf(ecc_calls) = Registered
    /\ \A e \in BagToSet(ecc_calls) : e[3] = Eye
    /\ OncePerUnit(slot_writes)
    /\ BagToSet(slot_writes) =
          {<<u[1], u[2], "fallback">> : u \in failed}
              \cup {<<u[1], u[2], "aligned">> : u \in aligned}

\* align has returned after a failed attempt was followed by attempts that
\* succeeded with a transform other than the identity
NoRetriesWitness ==
    /\ pc = "done"
    /\ tx > 0
    /\ \E u \in failed, v \in aligned, w \in failed :
          (u[1] < v[1] \/ (u[1] = v[1] /\ u[2] < v[2])) /\ v[1] < w[1]

-----------------------------------------------------------------------------
(* Properties of the loop run in another order *)

\* the units of the loop that index a frame of the burst
FrameUnits == {u \in AllUnits(mode) : u[1] < N}

\* the loop is about to start: every unit is pending
Started == pc = "par" /\ pending = AllUnits(mode)

\* C12: each unit reads only slot 0 and its own slot and writes only its own
\* slot, so no unit reads an element that another unit writes, and running
\* the units in another order returns exactly the burst the sequential loop
\* returns (and raises exactly when the sequential loop raises).
OrderIndependent ==
    /\ Started =>
          LET written == UNION {Writes(burst, u[1], UnitChannels(mode, u[2])) : u \in FrameUnits}
          IN  /\ written \cap Slice(burst, 0, ChanSet) = {}
              /\ Cardinality(written) =
                    Cardinality(FrameUnits) * Cardinality(Slice(burst, 0, UnitChannels(mode, 0)))
              /\ \A u \in FrameUnits :
                    Reads(burst, u[1], UnitChannels(mode, u[2]))
                        \cap (written \ Writes(burst, u[1], UnitChannels(mode, u[2]))) = {}
    /\ pc = "raised" => N < LoopEnd
    /\ pc = "done" =>
          /\ N >= LoopEnd
          /\ burst = SeqAlign(mode, burst_in, castMode, failPattern, tx)

\* a unit has run while Window - 1 units that precede it in the loop order
\* are still pending, and both failed and aligned units have run
OrderIndependentWitness ==
    /\ pc = "par"
    /\ \E u \in Registered :
          Cardinality({v \in pending : Rank(mode, v) < Rank(mode, u)}) = Window - 1
    /\ failed # {} /\ aligned # {}
    /\ tx > 0

-----------------------------------------------------------------------------
(* Properties of __getitem__ *)

\* the configured margin, 0 when none is configured
Border == Get(burst_transformation_params, "border_crop", 0)

\* C11 as stated: for every configured border_crop b >= 0 (b = 0 included)
\* __getitem__ of every variant removes exactly b rows and columns on each
\* side of the (crop_sz + 2b)-sized ground truth, so the returned HR has
\* spatial size crop_sz x crop_sz and its pixel (r, c) is the pixel
\* (r + b, c + b) of the image it is cut from.
BorderCropExact ==
    gpc = "returned" =>
        /\ data.HR.dims = <<crop_sz, crop_sz>>
        /\ \A p \in DOMAIN data.HR.at :
              /\ data.HR.at[p][2] = frame_crop.at[<<p[1] + Border, p[2] + Border>>][2]
              /\ data.HR.at[p][3] = frame_crop.at[<<p[1] + Border, p[2] + Border>>][3]

=============================================================================
